---------------------------- MODULE Spec2Model ----------------------------
(***************************************************************************)
(* A model of mcctl, a command-line manager of Minecraft server instances. *)
(*                                                                         *)
(* Three groups of state are modelled, each with its own specification:    *)
(*   Spec        the storage manager (storage.py) and the service units    *)
(*   SpecExec    the console layer (proc.py: attach, mc_exec)              *)
(*   SpecPre     the supervised first start (proc.py: pre_start)           *)
(*                                                                         *)
(* Text is modelled as a sequence of tokens.  A token is either one of the *)
(* characters the code inspects ("/", ".", ":", "=", "#") or an opaque     *)
(* run of other characters ("etc", "w", ...), so that str.replace, the     *)
(* `in` substring test, startswith and split act on a sequence of tokens   *)
(* exactly as they act on the text the tokens spell.                       *)
(***************************************************************************)
EXTENDS Integers, Sequences, FiniteSets, TLC

VARIABLES
    fs,        \* fs[i]: NoDir, or the tree under instance i (relative path -> entry)
    jarRoot,   \* whether <home>/jars exists
    jars,      \* the jar files in the cache, as paths relative to <home>/jars
    archive,   \* the zip file written by the last export (a set of members)
    active,    \* active[i]: the service unit of instance i is running
    enabled,   \* enabled[i]: the service unit of instance i starts at boot
    outside,   \* the paths outside every instance directory that an import wrote to
    pc,        \* position of the storage handler: "idle" or "prompt" (blocked in input())
    call,      \* what the last storage call was given, saw and did
    ex,        \* mc_exec: its position, arguments and locals
    log,       \* log[i]: the number of lines in logs/latest.log of instance i
    obs,       \* what the last console call (attach, mc_exec) saw and did
    ps,        \* pre_start: its position, arguments and locals
    child,     \* the server process pre_start spawned
    watch,     \* whether the watch file of pre_start exists
    pobs       \* what the run of pre_start did to the child, and when

storageVars == <<fs, jarRoot, jars, archive, outside, pc, call>>
serviceVars == <<active, enabled>>
execVars == <<ex, log, obs>>
preVars == <<ps, child, watch, pobs>>

(***************************************************************************)
(* Bounds of the model.                                                    *)
(***************************************************************************)
MaxPrompts == 3

Instances == {"a", "b"}

(***************************************************************************)
(* Text: Python's str operations on token sequences.                       *)
(***************************************************************************)
StartsWithAt(s, i, p) ==
    /\ i + Len(p) - 1 <= Len(s)
    /\ \A k \in 1..Len(p) : s[i + k - 1] = p[k]

\* str.startswith
StartsWith(s, p) == StartsWithAt(s, 1, p)

\* p in s  (substring test; the empty text is in every text)
Contains(s, p) == \E i \in 1..(Len(s) + 1) : StartsWithAt(s, i, p)

RECURSIVE ReplaceFrom(_, _, _, _)
ReplaceFrom(s, i, old, new) ==
    IF i > Len(s) THEN <<>>
    ELSE IF StartsWithAt(s, i, old)
         THEN new \o ReplaceFrom(s, i + Len(old), old, new)
         ELSE <<s[i]>> \o ReplaceFrom(s, i + 1, old, new)

\* str.replace(old, new): one pass, left to right, over non-overlapping matches
Replace(s, old, new) == ReplaceFrom(s, 1, old, new)

RECURSIVE SplitFrom(_, _, _, _)
SplitFrom(s, i, sep, cur) ==
    IF i > Len(s) THEN <<cur>>
    ELSE IF s[i] = sep THEN <<cur>> \o SplitFrom(s, i + 1, sep, <<>>)
    ELSE SplitFrom(s, i + 1, sep, Append(cur, s[i]))

\* str.split(sep)
Split(s, sep) == SplitFrom(s, 1, sep, <<>>)

\* str.lower on a reply typed at a prompt
Lower(r) == CASE r = "Y" -> "y" [] r = "N" -> "n" [] OTHER -> r


(***************************************************************************)
(* Paths.  A path is a sequence of segments, a segment a token sequence.   *)
(***************************************************************************)
\* pathlib.Path(text).parts without the root: empty segments and "." are dropped
Parts(name) == SelectSeq(Split(name, "/"), LAMBDA seg : seg # <<>> /\ seg # <<".">>)

IsAbsolute(name) == Len(name) > 0 /\ name[1] = "/"

\* base / text: an absolute right-hand side replaces the base
JoinPath(base, name) == IF IsAbsolute(name) THEN Parts(name) ELSE base \o Parts(name)

RECURSIVE ResolveFrom(_, _, _)
ResolveFrom(p, k, acc) ==
    IF k > Len(p) THEN acc
    ELSE IF p[k] = <<".", ".">>
         THEN ResolveFrom(p, k + 1,
                          IF acc = <<>> THEN acc ELSE SubSeq(acc, 1, Len(acc) - 1))
         ELSE ResolveFrom(p, k + 1, Append(acc, p[k]))

\* the file the operating system opens for a path holding ".." segments
Resolve(p) == ResolveFrom(p, 1, <<>>)

HomePath == << <<"home">> >>

InstancePath(instance) == HomePath \o << <<"instances">>, <<instance>> >>

JarRootPath == HomePath \o << <<"jars">> >>

\* get_jar_path: the path, or the error it raises
GetJarPath(type_id, bare) ==
    IF ~Contains(type_id, <<":">>) /\ ~bare
    THEN [err |-> "ValueError", path |-> <<>>]
    ELSE IF bare THEN [err |-> "none", path |-> JarRootPath]
    ELSE [err |-> "none",
          path |-> JarRootPath \o Parts(Replace(type_id, <<":">>, <<"/">>) \o <<".jar">>)]

(***************************************************************************)
(* Instance trees.  The data of a file is its sequence of lines.           *)
(***************************************************************************)
Dir == [kind |-> "dir", data |-> <<>>]

File(lines) == [kind |-> "file", data |-> lines]

EmptyTree == [p \in {} |-> Dir]

\* fs[i] of an instance whose directory does not exist, and of one holding a tree
NoDir == [exists |-> FALSE, tree |-> EmptyTree]

Present(tree) == [exists |-> TRUE, tree |-> tree]

W == <<"w">>

ServerProperties == <<"server.properties">>

TreeWorld ==
    (<<ServerProperties>> :> File(<< <<"#", "c">>, <<"level-name", "=", "w">> >>))
    @@ (<<W>> :> Dir)
    @@ (<<W, <<"r">>>> :> File(<< <<"d1">> >>))

\* a sibling directory and a top-level file whose names contain the world's name
TreeSiblings ==
    TreeWorld
    @@ (<< <<"w", "_n">> >> :> Dir)
    @@ (<< <<"w", "_n">>, <<"r">> >> :> File(<< <<"d2">> >>))
    @@ (<< <<"w", ".bak">> >> :> File(<< <<"d3">> >>))

\* nothing but an empty file
TreeHollow == (<< <<"eula.txt">> >> :> File(<<>>))

Trees == {TreeWorld, TreeSiblings, TreeHollow, EmptyTree}

Exists(i) == fs[i].exists

\* the cached jars a fresh cache holds
JarFiles == { GetJarPath(<<"paper", ":", "1.15.2", ":", "122">>, FALSE).path,
              GetJarPath(<<"vanilla", ":", "1.15.2">>, FALSE).path }

\* what the user may name on the command line of a jar removal
JarSources == { <<"paper", ":", "1.15.2", ":", "122">>,
                <<"vanilla", ":", "1.15.2">>,
                <<"paper">>,
                <<"all">> }

(***************************************************************************)
(* The service-state controller (mcctl.service).                           *)
(***************************************************************************)
IsActive(instance) == active[instance]

IsEnabled(instance) == enabled[instance]

\* one-to-one: the unit of an instance is identified with the instance
GetUnit(instance) == instance

SetStatus(st, instance, action) ==
    CASE action = "start"   -> [st EXCEPT !.active[instance] = TRUE]
      [] action = "stop"    -> [st EXCEPT !.active[instance] = FALSE]
      [] action = "restart" -> [st EXCEPT !.active[instance] = TRUE]
      [] action = "enable"  -> [st EXCEPT !.enabled[instance] = TRUE]
      [] action = "disable" -> [st EXCEPT !.enabled[instance] = FALSE]

Units == [active |-> active, enabled |-> enabled]

\* __main__: start [--persistent]
CliStart(instance, persistent) ==
    /\ pc = "idle"
    /\ LET s1 == IF persistent THEN SetStatus(Units, instance, "enable") ELSE Units
           s2 == SetStatus(s1, instance, "start")
       IN  active' = s2.active /\ enabled' = s2.enabled
    /\ UNCHANGED <<storageVars, execVars, preVars>>

CliStop_KeepEnabled(instance, persistent) ==
    /\ pc = "idle"
    /\ active' = SetStatus(Units, instance, "stop").active
    /\ UNCHANGED <<enabled, storageVars, execVars, preVars>>

\* __main__: stop [--persistent]
CliStop(instance, persistent) ==
    /\ pc = "idle"
    /\ LET s1 == IF persistent THEN SetStatus(Units, instance, "disable") ELSE Units
           s2 == SetStatus(s1, instance, "stop")
       IN  active' = s2.active /\ enabled' = s2.enabled
    /\ UNCHANGED <<storageVars, execVars, preVars>>

\* __main__: restart
CliRestart(instance) ==
    /\ pc = "idle"
    /\ LET s2 == SetStatus(Units, instance, "restart")
       IN  active' = s2.active /\ enabled' = s2.enabled
    /\ UNCHANGED <<storageVars, execVars, preVars>>

(***************************************************************************)
(* Storage manager: removal of an instance or of a cached jar.             *)
(***************************************************************************)
Replies == {"y", "Y", "n", "N", "x"}

\* the record of a storage call: its arguments, what it saw, what it did
NoCall ==
    [op |-> "none", inst |-> "none", flag |-> FALSE, src |-> <<>>,
     err |-> "none", preFs |-> [i \in Instances |-> NoDir], preJars |-> {}, preRoot |-> FALSE,
     wasActive |-> FALSE, wasEnabled |-> FALSE,
     prompts |-> 0, lastReply |-> "none", removeAll |-> FALSE, unlinked |-> FALSE,
     created |-> FALSE, opened |-> FALSE, preOutside |-> {}]

NewCall(op, instance, flag, src) ==
    [NoCall EXCEPT !.op = op, !.inst = instance, !.flag = flag, !.src = src,
                   !.preFs = fs, !.preJars = jars, !.preRoot = jarRoot, !.preOutside = outside,
                   !.wasActive = IF instance \in Instances THEN IsActive(GetUnit(instance)) ELSE FALSE,
                   !.wasEnabled = IF instance \in Instances THEN IsEnabled(instance) ELSE FALSE]

\* shutil.rmtree(path)
RemoveAll(tree_fs, instance) == [tree_fs EXCEPT ![instance] = NoDir]

\* the answer a reply gives: only the reply to the first prompt is lowercased
Answer(prompts, reply) == IF prompts = 1 THEN Lower(reply) ELSE reply

ServiceBlocks_EnabledOnly(instance) == IsEnabled(instance)

\* the guard of remove: the unit is enabled, or it is active
ServiceBlocks(instance) == IsEnabled(instance) \/ IsActive(GetUnit(instance))

\* remove(instance, force) up to its first prompt
Remove(instance, force) ==
    /\ pc = "idle"
    /\ LET c == NewCall("remove", instance, force, <<>>) IN
       IF ~Exists(instance)
       THEN /\ call' = [c EXCEPT !.err = "NotFound"]
            /\ UNCHANGED <<fs, pc>>
       ELSE IF ServiceBlocks(instance)
       THEN /\ call' = [c EXCEPT !.err = "Conflict"]
            /\ UNCHANGED <<fs, pc>>
       ELSE IF force
       THEN /\ fs' = RemoveAll(fs, instance)
            /\ call' = [c EXCEPT !.removeAll = TRUE]
            /\ UNCHANGED pc
       ELSE /\ pc' = "prompt"
            /\ call' = [c EXCEPT !.prompts = 1]
            /\ UNCHANGED fs
    /\ UNCHANGED <<jarRoot, jars, archive, outside, active, enabled, execVars, preVars>>

\* remove blocked in input(): the user types a reply
RemoveReply(reply) ==
    /\ pc = "prompt"
    /\ call.op = "remove"
    /\ LET ans == Answer(call.prompts, reply) IN
       IF ans \notin {"y", "n"}
       THEN /\ call.prompts < MaxPrompts
            /\ call' = [call EXCEPT !.prompts = @ + 1, !.lastReply = reply]
            /\ UNCHANGED <<fs, pc>>
       ELSE /\ pc' = "idle"
            /\ IF ans = "y"
               THEN /\ fs' = RemoveAll(fs, call.inst)
                    /\ call' = [call EXCEPT !.lastReply = reply, !.removeAll = TRUE]
               ELSE /\ call' = [call EXCEPT !.lastReply = reply]
                    /\ UNCHANGED fs
    /\ UNCHANGED <<jarRoot, jars, archive, outside, active, enabled, execVars, preVars>>

\* remove_jar(source, force) up to its first prompt
RemoveJar(source, force) ==
    /\ pc = "idle"
    /\ LET c == NewCall("remove_jar", "none", force, source)
           del_all == source = <<"all">>
           del_path == IF del_all THEN GetJarPath(<<>>, TRUE) ELSE GetJarPath(source, FALSE)
           exists == IF del_all THEN jarRoot ELSE del_path.path \in jars
       IN
       IF del_path.err # "none"
       THEN /\ call' = [c EXCEPT !.err = "InvalidInput"]
            /\ UNCHANGED <<jarRoot, jars, pc>>
       ELSE IF ~exists
       THEN /\ call' = [c EXCEPT !.err = "NotFound"]
            /\ UNCHANGED <<jarRoot, jars, pc>>
       ELSE IF force
       THEN /\ IF del_all
               THEN jarRoot' = FALSE /\ jars' = {}
               ELSE jars' = jars \ {del_path.path} /\ UNCHANGED jarRoot
            /\ call' = [c EXCEPT !.removeAll = del_all, !.unlinked = ~del_all]
            /\ UNCHANGED pc
       ELSE /\ pc' = "prompt"
            /\ call' = [c EXCEPT !.prompts = 1]
            /\ UNCHANGED <<jarRoot, jars>>
    /\ UNCHANGED <<fs, archive, outside, active, enabled, execVars, preVars>>

\* remove_jar blocked in input(): the user types a reply
RemoveJarReply(reply) ==
    /\ pc = "prompt"
    /\ call.op = "remove_jar"
    /\ LET ans == Answer(call.prompts, reply)
           del_all == call.src = <<"all">>
       IN
       IF ans \notin {"y", "n"}
       THEN /\ call.prompts < MaxPrompts
            /\ call' = [call EXCEPT !.prompts = @ + 1, !.lastReply = reply]
            /\ UNCHANGED <<jarRoot, jars, pc>>
       ELSE /\ pc' = "idle"
            /\ IF ans = "y"
               THEN /\ IF del_all
                       THEN jarRoot' = FALSE /\ jars' = {}
                       ELSE jars' = jars \ {GetJarPath(call.src, FALSE).path} /\ UNCHANGED jarRoot
                    /\ call' = [call EXCEPT !.lastReply = reply,
                                            !.removeAll = del_all, !.unlinked = ~del_all]
               ELSE /\ call' = [call EXCEPT !.lastReply = reply]
                    /\ UNCHANGED <<jarRoot, jars>>
    /\ UNCHANGED <<fs, archive, outside, active, enabled, execVars, preVars>>

\* standard input ends while a handler is blocked in input(): EOFError
StdinClosed ==
    /\ pc = "prompt"
    /\ pc' = "idle"
    /\ call' = [call EXCEPT !.err = "EOFError"]
    /\ UNCHANGED <<fs, jarRoot, jars, archive, outside, active, enabled, execVars, preVars>>

(***************************************************************************)
(* Storage manager: export and import of an instance as a zip archive.     *)
(* A zip file is the set of its members; the order of the members only     *)
(* drives the progress display.                                            *)
(***************************************************************************)
RECURSIVE JoinText(_, _)
\* "/".join(parts)
JoinText(parts, k) ==
    IF k > Len(parts) THEN <<>>
    ELSE IF k = Len(parts) THEN parts[k]
    ELSE parts[k] \o <<"/">> \o JoinText(parts, k + 1)

\* str(relative path)
PathText(p) == JoinText(p, 1)

\* line.split("=", 1) of a properties line
KeyOf(line) == Split(line, "=")[1]

ValueOf(line) == SubSeq(line, Len(KeyOf(line)) + 2, Len(line))

IsProperty(line) == ~StartsWith(line, <<"#">>) /\ Contains(line, <<"=">>)

\* config.get_properties(file).get(key): the value, or None
GetProperty(lines, key) ==
    LET idx == {k \in 1..Len(lines) : IsProperty(lines[k]) /\ KeyOf(lines[k]) = key}
    IN  IF idx = {} THEN [found |-> FALSE, val |-> <<>>]
        ELSE [found |-> TRUE,
              val |-> ValueOf(lines[CHOOSE k \in idx : \A j \in idx : j <= k])]

\* parts[filter_idx]: a negative index counts from the end
PartAt(p, filter_idx) == IF filter_idx < 0 THEN p[Len(p) + 1 + filter_idx] ELSE p[filter_idx + 1]

\* get_relative_paths: the descendants whose part at filter_idx has filter_str in it
GetRelativePaths(tree, filter_str, filter_idx) ==
    {p \in DOMAIN tree : Contains(PartAt(p, filter_idx), filter_str)}

\* st_size: a directory entry has a size of its own, a file the size of its data
StSize(entry) == IF entry.kind = "dir" THEN 1 ELSE Len(entry.data)

RECURSIVE SumSize(_, _)
SumSize(tree, paths) ==
    IF paths = {} THEN 0
    ELSE LET p == CHOOSE q \in paths : TRUE
         IN  StSize(tree[p]) + SumSize(tree, paths \ {p})

\* zip_file.write(full_path, file_path): the member stored for a path
Member(tree, p) ==
    [filename |-> IF tree[p].kind = "dir" THEN PathText(p) \o <<"/">> ELSE PathText(p),
     is_dir   |-> tree[p].kind = "dir",
     data     |-> tree[p].data]

NoArchive ==
    [written |-> FALSE, members |-> {}, from |-> "none", world_only |-> FALSE,
     tree |-> EmptyTree, err |-> "none"]

\* export(instance, zip_path, compress, world_only)
Export(instance, world_only) ==
    /\ pc = "idle"
    /\ LET c == NewCall("export", instance, world_only, <<>>)
           tree == fs[instance].tree
           hasCfg == Exists(instance) /\ <<ServerProperties>> \in DOMAIN tree
                       /\ tree[<<ServerProperties>>].kind = "file"
           world == IF hasCfg THEN GetProperty(tree[<<ServerProperties>>].data, <<"level-name">>)
                    ELSE [found |-> FALSE, val |-> <<>>]
           filter_str == IF world_only THEN world.val ELSE <<>>
           file_list == GetRelativePaths(tree, filter_str, 0)
           total_size == SumSize(tree, file_list)
           out == [written |-> TRUE, members |-> {}, from |-> instance,
                   world_only |-> world_only, tree |-> tree, err |-> "none"]
       IN
       IF world_only /\ ~hasCfg
       THEN \* server.properties cannot be read
            /\ call' = [c EXCEPT !.err = "NotFound"]
            /\ UNCHANGED archive
       ELSE IF world_only /\ ~world.found /\ DOMAIN tree # {}
       THEN \* None in parts[0]
            /\ call' = [c EXCEPT !.err = "TypeError"]
            /\ UNCHANGED archive
       ELSE IF file_list # {} /\ total_size = 0
       THEN \* the progress display divides by total_size; the zip is left empty
            /\ call' = [c EXCEPT !.err = "ZeroDivisionError"]
            /\ archive' = [out EXCEPT !.err = "ZeroDivisionError"]
       ELSE /\ call' = c
            /\ archive' = [out EXCEPT !.members = {Member(tree, p) : p \in file_list}]
    /\ UNCHANGED <<fs, jarRoot, jars, outside, pc, active, enabled, execVars, preVars>>

\* archives a user may hand to an import, besides the one last exported
ZipFile1(name) == { [filename |-> name, is_dir |-> FALSE, data |-> << <<"d1">> >>] }

ZipTraversal == ZipFile1(<<".", ".", "/", ".", ".", "/", "etc", "/", "passwd">>)

ZipNested == ZipFile1(<<".", ".", ".", ".", "/", "/", "x">>)

ZipAbsolute == ZipFile1(<<"/", "etc", "/", "passwd">>)

ZipPlain == ZipFile1(<<"x">>)

ZipEmpty == {}

GivenZips == {ZipTraversal, ZipNested, ZipAbsolute, ZipPlain, ZipEmpty}

ImportPrecondition_ConflictOnly(exists, world_only) ==
    IF exists /\ ~world_only THEN "Conflict" ELSE "none"

\* the check of mc_import on entry: the error raised, or "none"
ImportPrecondition(exists, world_only) ==
    IF exists # world_only
    THEN IF world_only THEN "NotFound" ELSE "Conflict"
    ELSE "none"

\* create_dirs(path): no-op on an existing directory
CreateDirs(tree_fs, instance) ==
    IF tree_fs[instance].exists THEN tree_fs
    ELSE [tree_fs EXCEPT ![instance] = Present(EmptyTree)]

\* the level-name filter of a world-only import: zip_file.open("server.properties")
\* raises KeyError without such a member; with one, tmpf is a name the module
\* never imports, and evaluating tmpf.NamedTemporaryFile() raises NameError
WorldFilter(zip) ==
    IF \A x \in zip : x.filename # ServerProperties
    THEN [err |-> "KeyError", filter_str |-> <<>>]
    ELSE [err |-> "NameError", filter_str |-> <<>>]

\* file_list, a generator, summed for t_size: the filter reads x.name of the
\* first member, an attribute zipfile.ZipInfo does not have (AttributeError);
\* over no member at all the sum is 0. Either way the generator is used up,
\* and the loop after the sum iterates over what is left of it: nothing.
FileList(zip, filter_str) ==
    IF zip # {}
    THEN [err |-> "AttributeError", left |-> {}]
    ELSE [err |-> "none", left |-> {}]

\* zpath.filename.replace("../", "")
SafeZpath(filename) == Replace(filename, <<".", ".", "/">>, <<>>)

\* instance_path / safe_zpath
DstPath(instance, filename) == JoinPath(InstancePath(instance), SafeZpath(filename))

\* the instance whose directory the file at an absolute path lies in, if any
Holder(path) == {j \in Instances : /\ Len(path) > Len(InstancePath(j))
                                   /\ SubSeq(path, 1, Len(InstancePath(j))) = InstancePath(j)}

RelTo(path, j) == SubSeq(path, Len(InstancePath(j)) + 1, Len(path))

\* open(dst_path, 'wb') and copyfileobj for every member left in file_list
Extract(state, instance, items) ==
    LET dst(x) == Resolve(DstPath(instance, x.filename))
        inTree(j) == {x \in items : j \in Holder(dst(x)) /\ state.fs[j].exists}
        put(j) == LET new == {RelTo(dst(x), j) : x \in inTree(j)}
                  IN  [p \in DOMAIN state.fs[j].tree \cup new |->
                         IF p \in new
                         THEN File((CHOOSE x \in inTree(j) : RelTo(dst(x), j) = p).data)
                         ELSE state.fs[j].tree[p]]
    IN  [fs      |-> [j \in Instances |->
                        IF inTree(j) = {} THEN state.fs[j] ELSE Present(put(j))],
         outside |-> state.outside \cup {dst(x) : x \in {y \in items : Holder(dst(y)) = {}}}]

\* mc_import(instance, zip_path, world_only)
Import(instance, zip, world_only) ==
    /\ pc = "idle"
    /\ LET c == NewCall("import", instance, world_only, zip)
           pre == ImportPrecondition(Exists(instance), world_only)
           made == CreateDirs(fs, instance)
           wf == IF world_only THEN WorldFilter(zip) ELSE [err |-> "none", filter_str |-> <<>>]
           fl == FileList(zip, wf.filter_str)
           done == Extract([fs |-> made, outside |-> outside], instance, fl.left)
       IN
       IF pre # "none"
       THEN /\ call' = [c EXCEPT !.err = pre]
            /\ UNCHANGED <<fs, outside>>
       ELSE IF wf.err # "none"
       THEN /\ call' = [c EXCEPT !.err = wf.err, !.created = ~Exists(instance), !.opened = TRUE]
            /\ fs' = made
            /\ UNCHANGED outside
       ELSE IF fl.err # "none"
       THEN /\ call' = [c EXCEPT !.err = fl.err, !.created = ~Exists(instance), !.opened = TRUE]
            /\ fs' = made
            /\ UNCHANGED outside
       ELSE /\ call' = [c EXCEPT !.created = ~Exists(instance), !.opened = TRUE]
            /\ fs' = done.fs
            /\ outside' = done.outside
    /\ UNCHANGED <<jarRoot, jars, archive, pc, active, enabled, execVars, preVars>>

(***************************************************************************)
(* Process control: attach and mc_exec.                                    *)
(***************************************************************************)
MaxRetriesBound == 3

MaxLog == 2

Idle == [pc |-> "idle", instance |-> "none", max_retries |-> 0,
         max_flush_retries |-> 0, i |-> 0, old_count |-> 0]

NoObs == [op |-> "none", wasActive |-> FALSE, err |-> "none", spawned |-> FALSE,
          injected |-> FALSE, opened |-> FALSE, polls |-> 0, idle |-> 0, saw |-> FALSE,
          base |-> 0, printed |-> <<>>]

ConsoleAtRest ==
    /\ ex = Idle
    /\ log = [i \in Instances |-> 0]
    /\ obs = NoObs

AssertRunning_Skipped(instance) == TRUE

\* assert service.is_active(instance), "The Server is not running"
AssertRunning(instance) == IsActive(instance)

\* attach(instance): screen -r mc-<instance>, until the user detaches
Attach(instance) ==
    /\ ex.pc # "polling"
    /\ LET o == [NoObs EXCEPT !.op = "attach", !.wasActive = IsActive(instance)] IN
       IF ~AssertRunning(instance)
       THEN obs' = [o EXCEPT !.err = "NotRunning"]
       ELSE obs' = [o EXCEPT !.spawned = TRUE]
    /\ ex' = Idle
    /\ UNCHANGED <<log, storageVars, serviceVars, preVars>>

\* mc_exec(instance, command, pollrate, max_retries, max_flush_retries),
\* up to the first test of the poll loop
McExec(instance, max_retries, max_flush_retries) ==
    /\ ex.pc # "polling"
    /\ LET o == [NoObs EXCEPT !.op = "exec", !.wasActive = IsActive(instance)] IN
       IF ~AssertRunning(instance)
       THEN /\ obs' = [o EXCEPT !.err = "NotRunning"]
            /\ ex' = [Idle EXCEPT !.pc = "failed", !.instance = instance]
       ELSE /\ obs' = [o EXCEPT !.opened = TRUE, !.spawned = TRUE, !.injected = TRUE,
                               !.base = log[instance]]
            /\ ex' = [pc |-> IF 0 < max_retries THEN "polling" ELSE "done",
                     instance |-> instance,
                     max_retries |-> max_retries,
                     max_flush_retries |-> max_flush_retries,
                     i |-> 0,
                     old_count |-> log[instance] - 1]
    /\ UNCHANGED <<log, storageVars, serviceVars, preVars>>

\* the running server appends lines to its logs/latest.log
LogAppend(instance, k) ==
    /\ IsActive(instance)
    /\ log[instance] + k <= MaxLog
    /\ log' = [log EXCEPT ![instance] = @ + k]
    /\ UNCHANGED <<ex, obs, storageVars, serviceVars, preVars>>

FlushBudget_Full(max_retries, max_flush_retries) == 0

\* the value i is set to by a line of new output
FlushBudget(max_retries, max_flush_retries) == max_retries - max_flush_retries

IsNew_Inclusive(j, old_count) == j >= old_count

\* if j > old_count
IsNew(j, old_count) == j > old_count

RECURSIVE Echo(_, _, _, _)
\* for j, line in enumerate(file_hnd): the lines printed, by their index in
\* the file, and old_count after the last of them
Echo(j, lines, old_count, printed) ==
    IF j >= lines THEN [printed |-> printed, old_count |-> old_count]
    ELSE IF IsNew(j, old_count)
         THEN Echo(j + 1, lines, old_count + 1, Append(printed, j))
         ELSE Echo(j + 1, lines, old_count, printed)

\* one turn of the poll loop of mc_exec: sleep, then read the log from the start
Poll ==
    /\ ex.pc = "polling"
    /\ LET echo == Echo(0, log[ex.instance], ex.old_count, <<>>)
           fresh == echo.printed # <<>>
           i1 == ex.i + 1
           i2 == IF fresh THEN FlushBudget(ex.max_retries, ex.max_flush_retries) ELSE i1
       IN
       /\ ex' = [ex EXCEPT !.i = i2,
                         !.old_count = echo.old_count,
                         !.pc = IF i2 < ex.max_retries THEN "polling" ELSE "done"]
       /\ obs' = [obs EXCEPT !.polls = @ + 1,
                             !.idle = IF fresh THEN 0 ELSE @ + 1,
                             !.saw = @ \/ fresh,
                             !.printed = @ \o echo.printed]
    /\ UNCHANGED <<log, storageVars, serviceVars, preVars>>

(***************************************************************************)
(* Process control: pre_start, the supervised first start of a server.     *)
(***************************************************************************)
MaxKillSec == 2

\* fps = 4
Fps == 4

Resting == [pc |-> "idle", kill_sec |-> 0, has_watch |-> FALSE, i |-> 0,
            signaled |-> FALSE, success |-> FALSE]

\* terminate, kill: the calls of proc.terminate() and proc.kill();
\* watchAt, exitAt, sigAt: the number of turns of the loop completed when the
\* watch file came to exist, when the child exited, when terminate was called
NoPobs == [terminate |-> 0, kill |-> 0, watchAt |-> -1, exitAt |-> -1, sigAt |-> -1]

PreStartAtRest ==
    /\ ps = Resting
    /\ child = "none"
    /\ watch = FALSE
    /\ pobs = NoPobs

\* the index of the last turn of the loop: range(kill_sec * fps + 1)
LastTick(kill_sec) == kill_sec * Fps

\* pre_start(jar_path, watch_file, kill_sec) up to the loop; a watch file
\* left by an earlier run may exist already
PreStart(kill_sec, has_watch, stale) ==
    /\ ps.pc = "idle"
    /\ stale => has_watch
    /\ ps' = [Resting EXCEPT !.pc = "loop", !.kill_sec = kill_sec, !.has_watch = has_watch]
    /\ child' = "running"
    /\ watch' = stale
    /\ pobs' = [NoPobs EXCEPT !.watchAt = IF stale THEN 0 ELSE -1]
    /\ UNCHANGED <<storageVars, serviceVars, execVars>>

\* the server creates the watch file
WatchAppears ==
    /\ ps.pc = "loop"
    /\ ps.has_watch
    /\ child = "running"
    /\ ~watch
    /\ watch' = TRUE
    /\ pobs' = [pobs EXCEPT !.watchAt = ps.i]
    /\ UNCHANGED <<ps, child, storageVars, serviceVars, execVars>>

\* the server process ends, of itself or on the termination signal
ChildExits ==
    /\ ps.pc = "loop"
    /\ child = "running"
    /\ child' = "exited"
    /\ pobs' = [pobs EXCEPT !.exitAt = ps.i]
    /\ UNCHANGED <<ps, watch, storageVars, serviceVars, execVars>>

SeesWatch_Resignal(signaled, has_watch, exists) == has_watch /\ exists

\* not signaled and watch_file is not None and watch_file.exists()
SeesWatch(signaled, has_watch, exists) == ~signaled /\ has_watch /\ exists

\* the branch a turn of the loop takes: if / elif / elif, in this order
TickBranch(i, last, sees_watch, ended) ==
    IF sees_watch THEN "terminate"
    ELSE IF i = last THEN "kill"
    ELSE IF ended THEN "ended"
    ELSE "sleep"

\* one turn of the loop of pre_start, and the return after the last one
Tick ==
    /\ ps.pc = "loop"
    /\ LET last == LastTick(ps.kill_sec)
           sees_watch == SeesWatch(ps.signaled, ps.has_watch, watch)
           branch == TickBranch(ps.i, last, sees_watch, child # "running")
           over == branch = "ended" \/ ps.i = last
       IN
       /\ ps' = [ps EXCEPT !.signaled = @ \/ branch = "terminate",
                           !.success = @ \/ branch = "ended",
                           !.i = IF over THEN @ ELSE @ + 1,
                           !.pc = IF over THEN "returned" ELSE "loop"]
       /\ child' = IF branch = "kill" /\ child = "running" THEN "killed" ELSE child
       /\ pobs' = [pobs EXCEPT !.terminate = IF branch = "terminate" THEN @ + 1 ELSE @,
                               !.kill = IF branch = "kill" THEN @ + 1 ELSE @,
                               !.sigAt = IF branch = "terminate" THEN ps.i ELSE @]
    /\ UNCHANGED <<watch, storageVars, serviceVars, execVars>>

(***************************************************************************)
(* Specification of removal and of the service units: one command of the   *)
(* tool runs at a time.                                                    *)
(***************************************************************************)
Init ==
    /\ fs \in {[i \in Instances |-> IF i = "a" THEN Present(t) ELSE u] :
                  t \in {TreeWorld, TreeHollow}, u \in {NoDir, Present(EmptyTree)}}
    /\ jarRoot = TRUE
    /\ jars = JarFiles
    /\ archive = NoArchive
    /\ outside = {}
    /\ active = [i \in Instances |-> FALSE]
    /\ enabled = [i \in Instances |-> FALSE]
    /\ pc = "idle"
    /\ call = NoCall
    /\ ConsoleAtRest
    /\ PreStartAtRest

Next ==
    \/ \E i \in Instances, force \in BOOLEAN : Remove(i, force)
    \/ \E r \in Replies : RemoveReply(r)
    \/ \E src \in JarSources, force \in BOOLEAN : RemoveJar(src, force)
    \/ \E r \in Replies : RemoveJarReply(r)
    \/ StdinClosed
    \/ \E i \in Instances, persistent \in BOOLEAN : CliStart(i, persistent)
    \/ \E i \in Instances, persistent \in BOOLEAN : CliStop(i, persistent)
    \/ \E i \in Instances : CliRestart(i)

vars == <<fs, jarRoot, jars, archive, outside, active, enabled, pc, call,
          ex, log, obs, ps, child, watch, pobs>>

Spec == Init /\ [][Next]_vars

(***************************************************************************)
(* Specification of export and import.                                     *)
(***************************************************************************)
InitArchive ==
    /\ fs \in {[i \in Instances |-> IF i = "a" THEN Present(t) ELSE NoDir] : t \in Trees}
    /\ jarRoot = TRUE
    /\ jars = JarFiles
    /\ archive = NoArchive
    /\ outside = {}
    /\ active = [i \in Instances |-> FALSE]
    /\ enabled = [i \in Instances |-> FALSE]
    /\ pc = "idle"
    /\ call = NoCall
    /\ ConsoleAtRest
    /\ PreStartAtRest

NextArchive ==
    \/ \E i \in Instances, world_only \in BOOLEAN : Export(i, world_only)
    \/ \E i \in Instances, world_only \in BOOLEAN,
          zip \in GivenZips \cup (IF archive.written THEN {archive.members} ELSE {}) :
            Import(i, zip, world_only)

SpecArchive == InitArchive /\ [][NextArchive]_vars

(***************************************************************************)
(* Specification of the console layer: attach and mc_exec, beside the      *)
(* start and stop of the service units.  The poll loop keeps turning.      *)
(***************************************************************************)
\* one instance on disk, a fresh jar cache, every unit stopped and disabled
StorageAtRest ==
    /\ fs = [i \in Instances |-> IF i = "a" THEN Present(TreeWorld) ELSE NoDir]
    /\ jarRoot = TRUE
    /\ jars = JarFiles
    /\ archive = NoArchive
    /\ outside = {}
    /\ active = [i \in Instances |-> FALSE]
    /\ enabled = [i \in Instances |-> FALSE]
    /\ pc = "idle"
    /\ call = NoCall

InitExec == StorageAtRest /\ ConsoleAtRest /\ PreStartAtRest

NextExec ==
    \/ \E i \in Instances : Attach(i)
    \/ \E i \in Instances, mr \in 0..MaxRetriesBound, mfr \in 0..MaxRetriesBound :
          McExec(i, mr, mfr)
    \/ \E i \in Instances, k \in 1..MaxLog : LogAppend(i, k)
    \/ Poll
    \/ \E i \in Instances : CliStart(i, FALSE)
    \/ \E i \in Instances : CliStop(i, FALSE)

SpecExec == InitExec /\ [][NextExec]_vars /\ WF_vars(Poll)

(***************************************************************************)
(* Specification of the supervised first start.  The loop keeps turning.   *)
(***************************************************************************)
InitPre == StorageAtRest /\ ConsoleAtRest /\ PreStartAtRest

NextPre ==
    \/ \E k \in 0..MaxKillSec, has_watch \in BOOLEAN, stale \in BOOLEAN :
          PreStart(k, has_watch, stale)
    \/ WatchAppears
    \/ ChildExits
    \/ Tick

SpecPre == InitPre /\ [][NextPre]_vars /\ WF_vars(Tick)

(***************************************************************************)
(* Storage manager: inspect, the last lines of the logs of an instance.    *)
(***************************************************************************)
MaxLimit == 4

MaxLines == 2

Logs == <<"logs">>

\* the names a logs directory may hold, in the order sorted() gives them
LogNames == << <<"1.log">>, <<"2.log">>, <<"latest.log">> >>

\* the lines of a log file of n lines, each line unlike any other
LogLines(name, n) == [k \in 1..n |-> name \o <<":">> \o <<IF k = 1 THEN "l1" ELSE IF k = 2 THEN "l2" ELSE "l3">>]

\* an instance whose logs directory holds, for each name, counts[name] lines
\* (no file for a count of -1)
TreeLogs(counts) ==
    LET names == {k \in 1..Len(LogNames) : counts[k] >= 0} IN
    (<<Logs>> :> Dir)
    @@ [p \in {<<Logs, LogNames[k]>> : k \in names} |->
          File(LogLines(p[2], counts[CHOOSE k \in names : LogNames[k] = p[2]]))]

LogTrees == {TreeLogs(c) : c \in [1..Len(LogNames) -> -1..MaxLines]}

\* get_child_paths(path): sorted(path.rglob("*"))
GetChildPaths(tree, dir) ==
    SelectSeq([k \in 1..Len(LogNames) |-> <<dir, LogNames[k]>>],
              LAMBDA p : p \in DOMAIN tree)

Window_Head(lines, limit) ==
    IF limit >= Len(lines) THEN lines ELSE SubSeq(lines, 1, limit)

\* lines[-limit:]
Window(lines, limit) ==
    IF limit = 0 \/ limit >= Len(lines) THEN lines
    ELSE SubSeq(lines, Len(lines) - limit + 1, Len(lines))

RECURSIVE ReadLogs(_, _, _, _, _)
\* for log in reversed(logs): lines = readlines() + lines; break when
\* len(lines) >= limit and limit != 0.  k is the index of the next log to read.
ReadLogs(tree, logs, k, lines, limit) ==
    IF k = 0 THEN [lines |-> lines, read |-> {}]
    ELSE LET got == tree[logs[k]].data \o lines IN
         IF Len(got) >= limit /\ limit # 0
         THEN [lines |-> got, read |-> {logs[k]}]
         ELSE LET rest == ReadLogs(tree, logs, k - 1, got, limit)
              IN  [lines |-> rest.lines, read |-> rest.read \cup {logs[k]}]

\* the record of a call of one of the tools
ToolCall(op, instance, arg, err, out) ==
    [op |-> op, inst |-> instance, arg |-> arg, err |-> err, out |-> out,
     preFs |-> fs, preJars |-> jars, preRoot |-> jarRoot]

\* inspect(instance, limit)
Inspect(instance, limit) ==
    /\ pc = "idle"
    /\ LET tree == fs[instance].tree
           logs == GetChildPaths(tree, Logs)
           got == ReadLogs(tree, logs, Len(logs), <<>>, limit)
       IN
       IF limit < 0
       THEN call' = ToolCall("inspect", instance, limit, "OverflowError",
                             [lines |-> <<>>, read |-> {}])
       ELSE call' = ToolCall("inspect", instance, limit, "none",
                             [lines |-> Window(got.lines, limit), read |-> got.read])
    /\ UNCHANGED <<fs, jarRoot, jars, archive, outside, pc, serviceVars, execVars, preVars>>

(***************************************************************************)
(* Configuration helper (modules/config.py).  A dict is a function from    *)
(* its keys to their values.                                               *)
(***************************************************************************)
EmptyDict == [k \in {} |-> <<>>]

\* str.rstrip(): trailing white space is dropped
Rstrip(line) ==
    LET keep == {k \in 1..Len(line) : line[k] \notin {" ", "\n"}}
    IN  IF keep = {} THEN <<>>
        ELSE SubSeq(line, 1, CHOOSE k \in keep : \A j \in keep : j <= k)

RECURSIVE ParseLines(_, _, _)
\* the loop of propertiesToDict over the lines from the k-th on
ParseLines(lines, k, dict) ==
    IF k > Len(lines) THEN [err |-> "none", dict |-> dict, line |-> <<>>]
    ELSE LET line == Rstrip(lines[k]) IN
         IF StartsWith(line, <<"#">>) THEN ParseLines(lines, k + 1, dict)
         ELSE IF ~Contains(line, <<"=">>)
              \* key, value = [line] cannot be unpacked
              THEN [err |-> "ValueError", dict |-> EmptyDict, line |-> line]
              ELSE ParseLines(lines, k + 1,
                              (KeyOf(line) :> ValueOf(line)) @@ dict)

\* the argument of propertiesToDict: a list of lines, an open file, or the
\* type list itself
AsList(lines) == [kind |-> "list", lines |-> lines]

AsFile(lines) == [kind |-> "file", lines |-> lines]

ListType == [kind |-> "type", lines |-> <<>>]

\* propertyList is list: the argument is the very object list
IsListType(arg) == arg.kind = "type"

\* propertiesToDict(propertyList)
PropertiesToDict(arg) ==
    IF ~IsListType(arg)
    THEN [err |-> "AssertionError", dict |-> EmptyDict, line |-> <<>>]
    ELSE IF arg.kind = "type"
    \* for line in list: a type cannot be iterated
    THEN [err |-> "TypeError", dict |-> EmptyDict, line |-> <<>>]
    ELSE ParseLines(arg.lines, 1, EmptyDict)

\* the lines given to the parser
PropertyLines ==
    { <<"#", "c">>, <<"a", "=", "1">>, <<"b", "=", "2", "=", "x">>,
      <<"a", "=", "3">>, <<"novalue">>, <<>> }

MaxParse == 2

RECURSIVE SeqsUpTo(_, _)
\* the sequences over S of length at most n
SeqsUpTo(S, n) ==
    IF n = 0 THEN {<<>>}
    ELSE LET shorter == SeqsUpTo(S, n - 1)
         IN  shorter \cup {Append(q, x) : q \in shorter, x \in S}

ParseInputs ==
    {AsList(l) : l \in SeqsUpTo(PropertyLines, MaxParse)}
    \cup {AsFile(<< <<"a", "=", "1">> >>), ListType}

\* a call of propertiesToDict
Parse(arg) ==
    /\ pc = "idle"
    /\ call' = ToolCall("parse", "none", arg, PropertiesToDict(arg).err, PropertiesToDict(arg))
    /\ UNCHANGED <<fs, jarRoot, jars, archive, outside, pc, serviceVars, execVars, preVars>>

\* open(path, "w+"): the file is created or cut to nothing
Truncate(tree, path) == (path :> File(<<>>)) @@ tree

\* the updates given to setProperties
Updates ==
    { EmptyDict,
      (<<"level-name">> :> <<"x">>),
      (<<"motd">> :> <<"hi">>) }

\* setProperties(filePath, properties) on the server.properties of an instance
SetProperties(instance, properties) ==
    /\ pc = "idle"
    /\ Exists(instance)
    /\ LET path == <<ServerProperties>>
           opened == Truncate(fs[instance].tree, path)
           \* configFile, read from where the file now stands
           oldConfig == PropertiesToDict(AsFile(opened[path].data))
       IN
       IF oldConfig.err # "none"
       THEN /\ fs' = [fs EXCEPT ![instance].tree = opened]
            /\ call' = ToolCall("setProperties", instance, properties, oldConfig.err, <<>>)
       ELSE \* list.append returns None, which has no format
            /\ fs' = [fs EXCEPT ![instance].tree = opened]
            /\ call' = ToolCall("setProperties", instance, properties,
                                IF DOMAIN (properties @@ oldConfig.dict) = {}
                                THEN "none" ELSE "AttributeError", <<>>)
    /\ UNCHANGED <<jarRoot, jars, archive, outside, pc, serviceVars, execVars, preVars>>

Eula == <<"eula.txt">>

EulaReplies == {"accept", "ACCEPT", "no", ""}

\* ans.lower()
LowerReply(ans) == IF ans = "ACCEPT" THEN "accept" ELSE ans

RECURSIVE EulaLoop(_, _, _, _)
\* the loop of acceptEula over the lines of the opened file from the k-th on
EulaLoop(lines, k, contents, ans) ==
    IF k > Len(lines)
    THEN [returned |-> "None", written |-> <<>>, prompted |-> FALSE]
    ELSE LET line == Rstrip(lines[k]) IN
         IF StartsWith(line, <<"#">>)
         THEN EulaLoop(lines, k + 1, Append(contents, line), ans)
         ELSE LET accepted == LowerReply(ans) = "accept" IN
              [returned |-> IF accepted THEN "True" ELSE "False",
               written  |-> IF accepted
                            THEN Append(contents,
                                        Replace(line, <<"eula", "=", "false">>,
                                                      <<"eula", "=", "true">>))
                            ELSE <<>>,
               prompted |-> TRUE]

\* acceptEula(instancePath), the user standing by to type ans
AcceptEula(instance, ans) ==
    /\ pc = "idle"
    /\ Exists(instance)
    /\ IF <<Eula>> \notin DOMAIN fs[instance].tree
       THEN /\ call' = ToolCall("acceptEula", instance, ans, "AssertionError",
                                [returned |-> "None", written |-> <<>>, prompted |-> FALSE])
            /\ UNCHANGED fs
       ELSE LET opened == Truncate(fs[instance].tree, <<Eula>>)
                \* the file is read from the start of what "w+" left of it
                done == EulaLoop(opened[<<Eula>>].data, 1, <<>>, ans)
            IN
            /\ fs' = [fs EXCEPT ![instance].tree =
                         (<<Eula>> :> File(opened[<<Eula>>].data \o done.written)) @@ opened]
            /\ call' = ToolCall("acceptEula", instance, ans, "none", done)
    /\ UNCHANGED <<jarRoot, jars, archive, outside, pc, serviceVars, execVars, preVars>>

\* the server.properties files and the eula.txt an instance starts with
PropFiles ==
    { << <<"#", "c">>, <<"level-name", "=", "w">> >>,
      << <<"level-name", "=", "w">>, <<"motd", "=", "old">> >>,
      <<>> }

EulaFile == << <<"#", "By changing the setting below to TRUE you agree">>,
               <<"#", "date">>,
               <<"eula", "=", "false">> >>

ToolTree(logs, props) ==
    logs @@ (<<ServerProperties>> :> File(props)) @@ (<<Eula>> :> File(EulaFile))

\* the instances the tools are run on; one of them has no eula.txt yet
ToolTrees == {ToolTree(TreeLogs(<<1, 1, 1>>), p) : p \in PropFiles} \cup {TreeWorld}

(***************************************************************************)
(* The jar cache: get_jar_path, and the pull subcommand of the entry       *)
(* point with the download resolver (modules/web.py).                      *)
(***************************************************************************)
\* the identifiers given to get_jar_path and to pull
JarIds ==
    { <<"paper", ":", "1.15.2", ":", "122">>,
      <<"vanilla", ":", "1.15.2">>,
      <<"forge", ":", "1.0">>,
      <<"paper">>,
      <<>> }

\* a call of get_jar_path(type_id, bare)
JarPath(type_id, bare) ==
    /\ pc = "idle"
    /\ call' = ToolCall("get_jar_path", "none", [type_id |-> type_id, bare |-> bare],
                        GetJarPath(type_id, bare).err, GetJarPath(type_id, bare).path)
    /\ UNCHANGED <<fs, jarRoot, jars, archive, outside, pc, serviceVars, execVars, preVars>>

\* the attributes parse_args gives args for the pull subcommand
PullArgs == {"action", "url", "source", "instance", "v"}

\* args.<name> can be read
HasAttr(name) == name \in PullArgs

\* getDownloadUrl(serverTag): the error it raises, if any; found tells
\* whether the remote index knows the version
GetDownloadUrl(serverTag, found) ==
    IF ~Contains(serverTag, <<":">>) THEN "ValueError"
    ELSE LET typeTag == Split(serverTag, ":")[1] IN
         IF typeTag \notin {<<"paper">>, <<"vanilla">>} THEN "UnsupportedType"
         ELSE IF ~found THEN "UnsupportedVersion"
         ELSE "none"

NoPull == [resolved |-> "unasked", steps |-> <<>>, dest |-> <<>>]

\* the pull branch of the entry point; url_given: --url was given
Pull(source, url_given, found) ==
    /\ pc = "idle"
    /\ LET arg == [source |-> source, url_given |-> url_given, found |-> found]
           resolved == IF url_given THEN "given" ELSE GetDownloadUrl(source, found)
           \* url is bound unless the resolver raised
           bound == resolved \in {"given", "none"}
           dest == JarRootPath \o Parts(Replace(source, <<":">>, <<"/">>) \o <<".jar">>)
           made == [resolved |-> resolved, steps |-> <<"createDirs">>, dest |-> dest]
       IN
       IF ~HasAttr("version")
       THEN \* args.version is read at the first print, and again for dest
            /\ call' = ToolCall("pull", "none", arg, "AttributeError", NoPull)
            /\ UNCHANGED <<jarRoot, jars>>
       ELSE IF ~bound
       THEN \* the error is printed and the branch goes on; url is unbound
            /\ call' = ToolCall("pull", "none", arg, "NameError", made)
            /\ jarRoot' = TRUE
            /\ UNCHANGED jars
       ELSE /\ call' = ToolCall("pull", "none", arg, "none",
                                [made EXCEPT !.steps = <<"createDirs", "download", "complete">>])
            /\ jarRoot' = TRUE
            /\ jars' = jars \cup {dest}
    /\ UNCHANGED <<fs, archive, outside, pc, serviceVars, execVars, preVars>>

(***************************************************************************)
(* Process control: demote, the identity of a spawned child.               *)
(* An identity is the real, effective and saved user and group ids of a    *)
(* process; a process is privileged when its effective user id is 0.       *)
(***************************************************************************)
RootId == 0

\* pw_uid and pw_gid of the service account
ServiceId == 1

OtherId == 2

Identity(r, e, sv) == [ruid |-> r, euid |-> e, suid |-> sv, rgid |-> r, egid |-> e, sgid |-> sv]

\* the identities the tool may run under: root, the service account,
\* another user, and root with its effective ids lowered by run_as
Identities ==
    { Identity(RootId, RootId, RootId),
      Identity(ServiceId, ServiceId, ServiceId),
      Identity(OtherId, OtherId, OtherId),
      Identity(RootId, ServiceId, RootId) }

Privileged(id) == id.euid = RootId

\* os.setegid(gid)
Setegid(id, gid) ==
    IF Privileged(id) \/ gid \in {id.rgid, id.egid, id.sgid}
    THEN [ok |-> TRUE, id |-> [id EXCEPT !.egid = gid]]
    ELSE [ok |-> FALSE, id |-> id]

\* os.seteuid(uid)
Seteuid(id, uid) ==
    IF Privileged(id) \/ uid \in {id.ruid, id.euid, id.suid}
    THEN [ok |-> TRUE, id |-> [id EXCEPT !.euid = uid]]
    ELSE [ok |-> FALSE, id |-> id]

\* os.setgid(gid)
Setgid(id, gid) ==
    IF Privileged(id)
    THEN [ok |-> TRUE, id |-> [id EXCEPT !.rgid = gid, !.egid = gid, !.sgid = gid]]
    ELSE IF gid \in {id.rgid, id.sgid}
    THEN [ok |-> TRUE, id |-> [id EXCEPT !.egid = gid]]
    ELSE [ok |-> FALSE, id |-> id]

\* os.setuid(uid)
Setuid(id, uid) ==
    IF Privileged(id)
    THEN [ok |-> TRUE, id |-> [id EXCEPT !.ruid = uid, !.euid = uid, !.suid = uid]]
    ELSE IF uid \in {id.ruid, id.suid}
    THEN [ok |-> TRUE, id |-> [id EXCEPT !.euid = uid]]
    ELSE [ok |-> FALSE, id |-> id]

\* (os.getuid, os.getgid) != (user.pw_uid, user.pw_gid): two functions are
\* compared with two numbers, and are never equal to them
NeedsDemotion(id) == TRUE

\* set_ids(), run in the child before the command is executed
SetIds(id) ==
    IF ~NeedsDemotion(id) THEN [err |-> "none", calls |-> <<>>, id |-> id]
    ELSE LET a == Setegid(id, RootId)
             b == Seteuid(a.id, RootId)
             c == Setgid(b.id, ServiceId)
             d == Setuid(c.id, ServiceId)
         IN
         IF ~a.ok THEN [err |-> "PermissionError", calls |-> <<"setegid">>, id |-> a.id]
         ELSE IF ~b.ok
         THEN [err |-> "PermissionError", calls |-> <<"setegid", "seteuid">>, id |-> b.id]
         ELSE IF ~c.ok
         THEN [err |-> "PermissionError", calls |-> <<"setegid", "seteuid", "setgid">>, id |-> c.id]
         ELSE [err |-> IF d.ok THEN "none" ELSE "PermissionError",
               calls |-> <<"setegid", "seteuid", "setgid", "setuid">>, id |-> d.id]

\* the callers that spawn a child with preexec_fn=demote()
Spawners == {"mc_exec", "pre_start", "edit"}

\* Popen(cmd, preexec_fn=demote()): the child starts with the identity of the
\* tool and runs set_ids; the tool keeps its own
Spawn(who, id) ==
    /\ pc = "idle"
    /\ LET done == SetIds(id) IN
       call' = ToolCall("spawn", "none", [who |-> who, id |-> id], done.err,
                        [calls |-> done.calls, child |-> done.id, parent |-> id])
    /\ UNCHANGED <<fs, jarRoot, jars, archive, outside, pc, serviceVars, execVars, preVars>>

(***************************************************************************)
(* Specification of the tools that read or rewrite the files of an         *)
(* instance.                                                               *)
(***************************************************************************)
InitTools ==
    /\ fs \in {[i \in Instances |-> IF i = "a" THEN Present(t) ELSE NoDir] : t \in ToolTrees}
    /\ jarRoot = TRUE
    /\ jars = JarFiles
    /\ archive = NoArchive
    /\ outside = {}
    /\ active = [i \in Instances |-> FALSE]
    /\ enabled = [i \in Instances |-> FALSE]
    /\ pc = "idle"
    /\ call = NoCall
    /\ ConsoleAtRest
    /\ PreStartAtRest

NextTools ==
    \/ \E arg \in ParseInputs : Parse(arg)
    \/ \E u \in Updates : SetProperties("a", u)
    \/ \E ans \in EulaReplies : AcceptEula("a", ans)
    \/ \E id \in JarIds, bare \in BOOLEAN : JarPath(id, bare)
    \/ \E who \in Spawners, id \in Identities : Spawn(who, id)
    \/ \E id \in JarIds, url_given \in BOOLEAN, found \in BOOLEAN : Pull(id, url_given, found)

SpecTools == InitTools /\ [][NextTools]_vars

(***************************************************************************)
(* Specification of log inspection, over the logs directories an instance  *)
(* may have.                                                               *)
(***************************************************************************)
InitInspect ==
    /\ fs \in {[i \in Instances |-> IF i = "a" THEN Present(t) ELSE NoDir] : t \in LogTrees}
    /\ jarRoot = TRUE
    /\ jars = JarFiles
    /\ archive = NoArchive
    /\ outside = {}
    /\ active = [i \in Instances |-> FALSE]
    /\ enabled = [i \in Instances |-> FALSE]
    /\ pc = "idle"
    /\ call = NoCall
    /\ ConsoleAtRest
    /\ PreStartAtRest

NextInspect == \E limit \in -1..MaxLimit : Inspect("a", limit)

SpecInspect == InitInspect /\ [][NextInspect]_vars

(***************************************************************************)
(* Claims about removal (checked under Spec).                              *)
(***************************************************************************)
\* what the last storage call left of the instance trees and of the jar cache
Unmodified ==
    /\ fs = call.preFs
    /\ jars = call.preJars
    /\ jarRoot = call.preRoot
    /\ outside = call.preOutside

\* C1: removing an instance whose directory exists and whose unit is active
\* or enabled fails with a conflict error, with force as without; nothing on
\* disk changes, no prompt is issued and remove_all is not reached.
C1_RemovalGuard ==
    (/\ call.op = "remove"
     /\ call.preFs[call.inst].exists
     /\ (call.wasActive \/ call.wasEnabled))
    => /\ call.err = "Conflict"
       /\ Unmodified
       /\ call.prompts = 0
       /\ ~call.removeAll
       /\ pc = "idle"

C1_Witness ==
    /\ call.op = "remove"
    /\ call.flag
    /\ call.preFs[call.inst].exists
    /\ call.wasActive
    /\ ~call.wasEnabled
    /\ call.err = "Conflict"

\* the target of the removal the last call asked for is gone
Deleted ==
    IF call.op = "remove" THEN ~fs[call.inst].exists
    ELSE IF call.src = <<"all">> THEN ~jarRoot /\ jars = {}
    ELSE GetJarPath(call.src, FALSE).path \notin jars

\* C2: with force=false, a reply other than y or n (in either case) leads to
\* a re-prompt and deletes nothing; a reply of y, in either case, at the
\* first prompt or at a re-prompt, ends the prompting and deletes; a reply
\* of n ends the prompting and leaves the disk unmodified.
C2_ConfirmationGating ==
    (/\ call.op \in {"remove", "remove_jar"}
     /\ ~call.flag
     /\ call.lastReply # "none"
     /\ call.err = "none")
    => /\ Lower(call.lastReply) = "y" => (pc = "idle" /\ Deleted)
       /\ call.lastReply = "n" => (pc = "idle" /\ Unmodified)
       /\ Lower(call.lastReply) # "y" => Unmodified
       /\ Lower(call.lastReply) \notin {"y", "n"} => pc = "prompt"

(***************************************************************************)
(* Claims about export and import (checked under SpecArchive).             *)
(***************************************************************************)
\* the last call was an import that passed the check on entry
ImportRan == call.op = "import" /\ call.err \notin {"Conflict", "NotFound"}

\* the file opened for a path lies in the directory of the instance
Inside(instance, path) == instance \in Holder(Resolve(path))

PasswdName == <<".", ".", "/", ".", ".", "/", "etc", "/", "passwd">>

\* C3: for every member name of an imported archive, the destination
\* (the name stripped of "../", joined to the instance directory) lies
\* inside the instance directory, and a member named ../../etc/passwd is
\* written to <instance>/etc/passwd.
C3_ImportStaysInside ==
    (ImportRan /\ ~call.flag)
    => /\ \A x \in call.src : Inside(call.inst, DstPath(call.inst, x.filename))
       /\ \A x \in call.src :
             x.filename = PasswdName
             => << <<"etc">>, <<"passwd">> >> \in DOMAIN fs[call.inst].tree

\* C4: a full import into an existing instance fails with a conflict error,
\* a world-only import into a missing instance with NotFound, and neither
\* creates a directory nor opens the archive; in the two other cases the
\* import goes on to open the archive, and the instance directory is
\* created exactly when it was absent.
C4_ImportPreconditions ==
    call.op = "import"
    => LET existed == call.preFs[call.inst].exists IN
       /\ (~call.flag /\ existed)
            => (call.err = "Conflict" /\ Unmodified /\ ~call.opened)
       /\ (call.flag /\ ~existed)
            => (call.err = "NotFound" /\ Unmodified /\ ~call.opened)
       /\ (call.flag = existed)
            => /\ call.err \notin {"Conflict", "NotFound"}
               /\ call.opened
               /\ fs[call.inst].exists
               /\ existed => DOMAIN call.preFs[call.inst].tree \subseteq DOMAIN fs[call.inst].tree
               /\ \A j \in Instances \ {call.inst} : fs[j].exists = call.preFs[j].exists

C4_Witness ==
    /\ call.op = "import"
    /\ call.flag
    /\ ~call.preFs[call.inst].exists
    /\ call.err = "NotFound"
    /\ call.src # {}

\* C5: a full export of instance A imported into a fresh instance B of
\* another name leaves B with the relative paths of A and the contents of A.
C5_RoundTrip ==
    (/\ call.op = "import"
     /\ ~call.flag
     /\ archive.written
     /\ archive.err = "none"
     /\ ~archive.world_only
     /\ call.src = archive.members
     /\ call.inst # archive.from
     /\ call.preFs[archive.from].exists
     /\ call.preFs[archive.from].tree = archive.tree
     /\ ~call.preFs[call.inst].exists)
    => /\ fs[call.inst].exists
       /\ fs[call.inst].tree = archive.tree

\* the level-name of the server.properties of a tree
LevelName(tree) == GetProperty(tree[<<ServerProperties>>].data, <<"level-name">>).val

\* C6: with level-name = W, a world-only export holds exactly the paths
\* whose first segment is W; a world-only import into an existing instance
\* changes only files under W and leaves every other file as it was.
C6_WorldOnlyScope ==
    /\ (archive.written /\ archive.world_only /\ archive.err = "none")
       => {x.filename : x \in archive.members}
            = {Member(archive.tree, p).filename :
                 p \in {q \in DOMAIN archive.tree : q[1] = LevelName(archive.tree)}}
    /\ (call.op = "import" /\ call.flag /\ call.preFs[call.inst].exists)
       => \A p \in DOMAIN call.preFs[call.inst].tree :
             p \in DOMAIN fs[call.inst].tree
             /\ (fs[call.inst].tree[p] # call.preFs[call.inst].tree[p] => p[1] = W)

(***************************************************************************)
(* Claims about mc_exec and attach (checked under SpecExec).               *)
(***************************************************************************)
\* the budget of the poll loop, for max_flush_retries <= max_retries: until
\* a poll sees output, the loop stops after max_retries polls and not before;
\* from then on it stops after max_flush_retries idle polls in a row and
\* not before
C7_Budget ==
    (obs.op = "exec" /\ obs.err = "none" /\ ex.max_flush_retries <= ex.max_retries)
    => /\ ex.pc = "done"
            => IF obs.saw THEN obs.idle = ex.max_flush_retries
                          ELSE obs.polls = ex.max_retries
       /\ ex.pc = "polling"
            => IF obs.saw THEN obs.idle < ex.max_flush_retries
                          ELSE obs.polls < ex.max_retries

\* C7: with no new log line at all the poll loop makes exactly max_retries
\* polls; a poll that sees new lines leaves a budget of max_flush_retries, so
\* the loop stops after exactly max_flush_retries idle polls in a row after
\* the last output; and the loop ends once the log stops growing.
C7_RetryAsymmetry == []C7_Budget /\ ((ex.pc = "polling") ~> (ex.pc = "done"))

C7_Witness ==
    /\ ex.pc = "done"
    /\ obs.saw
    /\ 0 < ex.max_flush_retries
    /\ ex.max_flush_retries < ex.max_retries
    /\ obs.idle = ex.max_flush_retries
    /\ obs.polls > ex.max_retries

\* C10: attach and mc_exec on an instance that is not active fail with
\* "The Server is not running" before any side effect: no child process, no
\* command sent to the console, no log file opened, no poll.
C10_NotRunning ==
    (obs.op \in {"attach", "exec"} /\ ~obs.wasActive)
    => /\ obs.err = "NotRunning"
       /\ ~obs.spawned
       /\ ~obs.injected
       /\ ~obs.opened
       /\ obs.polls = 0
       /\ ex.pc # "polling"

C10_Witness ==
    /\ obs.op = "exec"
    /\ ~obs.wasActive
    /\ obs.err = "NotRunning"
    /\ log[ex.instance] > 0

\* what mc_exec has printed so far: the lines appended since the count was
\* taken, each once, in the order of the file, and no line older than that
C19_Printed ==
    (obs.op = "exec" /\ obs.err = "none")
    => /\ Len(obs.printed) <= log[ex.instance] - obs.base
       /\ \A k \in 1..Len(obs.printed) : obs.printed[k] = obs.base + k - 1

\* a poll prints every line of the file it has not printed yet
C19_PollEchoes ==
    Poll => Len(obs'.printed) = log[ex.instance] - obs.base

\* C19: over all the polls of mc_exec, on a log that only grows, each line
\* appended after the count was taken is printed exactly once, in the order
\* of the file, by the first poll that sees it, and no line that was in the
\* file when the count was taken is printed; so also when several lines
\* come between two polls and when the log was empty at the start.
C19_OutputEcho == []C19_Printed /\ [][C19_PollEchoes]_vars

C19_Witness ==
    /\ obs.op = "exec"
    /\ obs.err = "none"
    /\ ex.pc = "done"
    /\ obs.base = 0
    /\ obs.polls = 3
    /\ obs.printed = <<0, 1>>

(***************************************************************************)
(* Claims about pre_start (checked under SpecPre).                         *)
(***************************************************************************)
Returned == ps.pc = "returned"

Last == LastTick(ps.kill_sec)

\* the watch file is given and came to exist before the last turn of the loop
WatchInTime == ps.has_watch /\ pobs.watchAt \in 0..(Last - 1)

\* the watch file never came to exist and the child never ended of itself
NoWatchNoExit == pobs.watchAt = -1 /\ pobs.exitAt = -1

\* the child had ended when a turn of the loop began that came after the
\* one that called terminate and before the last one
EndedInTime == pobs.exitAt # -1 /\ pobs.exitAt < Last /\ pobs.sigAt + 1 < Last

\* C8, as stated: when the watch file comes to exist before the timeout the
\* child is sent the termination signal exactly once and pre_start returns
\* true; when it never appears and the child does not exit before the
\* timeout, the child is killed and pre_start returns false.
C8_Original ==
    Returned
    => /\ WatchInTime => (pobs.terminate = 1 /\ ps.success)
       /\ NoWatchNoExit => (pobs.kill = 1 /\ ~ps.success)

\* C8, amended: terminate is never called twice; when the watch file comes
\* to exist before the timeout terminate is called exactly once, pre_start
\* then returns true without a kill if the child has ended when a turn of
\* the loop begins after the one that called terminate and before the last
\* one, and it kills the child and returns false if the child never ends;
\* when the watch file never appears and the child never exits, the child
\* is killed and pre_start returns false.
C8_SupervisedOutcomes ==
    /\ pobs.terminate <= 1
    /\ Returned
       => /\ WatchInTime
               => /\ pobs.terminate = 1
                  /\ EndedInTime => (ps.success /\ pobs.kill = 0)
                  /\ pobs.exitAt = -1 => (pobs.kill = 1 /\ ~ps.success)
          /\ NoWatchNoExit => (pobs.kill = 1 /\ ~ps.success)

C8_Witness ==
    /\ Returned
    /\ WatchInTime
    /\ pobs.terminate = 1
    /\ pobs.exitAt > pobs.sigAt
    /\ ps.success

\* C9: pre_start returns false if and only if it killed the child, and it
\* returns true whenever the child ended of itself or on the termination
\* signal, the last turn of the loop included.
C9_ReturnValue ==
    Returned
    => /\ ~ps.success <=> pobs.kill > 0
       /\ pobs.exitAt # -1 => ps.success

(***************************************************************************)
(* Claims about the tools (C11 checked under SpecInspect, the others      *)
(* under SpecTools).                                                       *)
(***************************************************************************)
RECURSIVE Chronicle(_, _, _)
\* the lines of the log files from the k-th on, oldest first
Chronicle(tree, logs, k) ==
    IF k > Len(logs) THEN <<>> ELSE tree[logs[k]].data \o Chronicle(tree, logs, k + 1)

Smaller(a, b) == IF a < b THEN a ELSE b

\* C11: for a limit > 0 inspect prints exactly the last min(limit, total)
\* lines of the logs taken oldest to newest, in their order, and reads the
\* newest files only, as few as hold limit lines (all of them when there are
\* fewer lines); a limit of 0 prints every line of every file; a negative
\* limit fails before any file is read.
C11_InspectWindow ==
    call.op = "inspect"
    => LET tree == call.preFs[call.inst].tree
           logs == GetChildPaths(tree, Logs)
           all == Chronicle(tree, logs, 1)
           total == Len(all)
           limit == call.arg
           n == Smaller(limit, total)
           \* the newest files from the k-th on
           newest(k) == {logs[j] : j \in k..Len(logs)}
       IN
       /\ limit < 0 => (call.err = "OverflowError" /\ call.out.read = {} /\ call.out.lines = <<>>)
       /\ limit = 0 => (call.err = "none" /\ call.out.lines = all /\ call.out.read = newest(1))
       /\ limit > 0
            => /\ call.err = "none"
               /\ call.out.lines = SubSeq(all, total - n + 1, total)
               /\ \E k \in 1..(Len(logs) + 1) :
                     /\ call.out.read = newest(k)
                     /\ Len(Chronicle(tree, logs, k)) >= limit \/ k = 1
                     /\ k <= Len(logs) => Len(Chronicle(tree, logs, k + 1)) < limit
       /\ fs = call.preFs

C11_Witness ==
    /\ call.op = "inspect"
    /\ call.arg = 3
    /\ Len(call.out.lines) = 3
    /\ Cardinality(call.out.read) = 2
    /\ Len(GetChildPaths(call.preFs[call.inst].tree, Logs)) = 3

\* the lines of the server.properties of a tree, read as a dict
PropsOf(tree) == ParseLines(tree[<<ServerProperties>>].data, 1, EmptyDict).dict

\* C12: after setProperties the file holds exactly the keys it held together
\* with the keys of the updates; every key of the updates has the value the
\* updates give it, every other key the value it had.
C12_MergeWrite ==
    (call.op = "setProperties" /\ <<ServerProperties>> \in DOMAIN call.preFs[call.inst].tree)
    => LET old == PropsOf(call.preFs[call.inst].tree)
           new == PropsOf(fs[call.inst].tree)
           updates == call.arg
       IN
       /\ call.err = "none"
       /\ DOMAIN new = DOMAIN old \cup DOMAIN updates
       /\ \A k \in DOMAIN updates : new[k] = updates[k]
       /\ \A k \in DOMAIN old \ DOMAIN updates : new[k] = old[k]

\* the lines of the eula.txt of a tree
EulaOf(tree) == tree[<<Eula>>].data

\* C13: on an eula.txt of comment lines followed by eula=false, a reply of
\* accept, in any case, makes acceptEula return true and leaves the file
\* with the same comment lines followed by eula=true; any other reply makes
\* it return false and leaves the file as it was.
C13_AcceptEula ==
    (/\ call.op = "acceptEula"
     /\ <<Eula>> \in DOMAIN call.preFs[call.inst].tree
     /\ EulaOf(call.preFs[call.inst].tree) = EulaFile)
    => IF LowerReply(call.arg) = "accept"
       THEN /\ call.out.returned = "True"
            /\ EulaOf(fs[call.inst].tree)
                 = [EulaFile EXCEPT ![Len(EulaFile)] = <<"eula", "=", "true">>]
       ELSE /\ call.out.returned = "False"
            /\ EulaOf(fs[call.inst].tree) = EulaFile

\* a line that is neither blank nor a comment
Setting(line) == line # <<>> /\ ~StartsWith(line, <<"#">>)

\* C14: propertiesToDict takes a list of lines; each line that is neither
\* blank nor a comment gives the text before its first "=" as a key of the
\* result and the text after it as the value; comments and blank lines give
\* nothing and raise nothing; such a line without "=" makes the call fail
\* with an error naming the line.
C14_ParseProperties ==
    (call.op = "parse" /\ call.arg.kind = "list")
    => LET lines == call.arg.lines
           settings == {k \in 1..Len(lines) : Setting(lines[k])}
           bad == {k \in settings : ~Contains(lines[k], <<"=">>)}
           dict == call.out.dict
       IN
       IF bad = {}
       THEN /\ call.err = "none"
            /\ DOMAIN dict = {KeyOf(lines[k]) : k \in settings}
            /\ \A key \in DOMAIN dict :
                  dict[key] \in {ValueOf(lines[k]) : k \in {j \in settings : KeyOf(lines[j]) = key}}
       ELSE /\ call.err = "ValueError"
            /\ \E k \in bad : call.out.line = lines[k]

\* an identifier type:version or type:version:build
WellFormedId(id) ==
    /\ Contains(id, <<":">>)
    /\ Len(Split(id, ":")) \in {2, 3}
    /\ \A k \in 1..Len(Split(id, ":")) : Split(id, ":")[k] # <<>>

\* <home>/jars/ followed by the identifier, each ":" a path separator,
\* and ".jar" appended
CachePath(id) ==
    LET segs == Split(id, ":") IN
    JarRootPath \o [segs EXCEPT ![Len(segs)] = @ \o <<".jar">>]

\* C15: get_jar_path, and the destination the pull subcommand computes,
\* map an identifier type:version[:build] to <home>/jars/ followed by the
\* identifier with each ":" replaced by a path separator and ".jar"
\* appended; an identifier without ":" is rejected unless bare is set, and
\* with bare set the cache root <home>/jars is returned.
C15_JarPathMapping ==
    /\ call.op = "get_jar_path"
       => /\ (WellFormedId(call.arg.type_id) /\ ~call.arg.bare)
               => (call.err = "none" /\ call.out = CachePath(call.arg.type_id))
          /\ (~Contains(call.arg.type_id, <<":">>) /\ ~call.arg.bare)
               => call.err = "ValueError"
          /\ (~Contains(call.arg.type_id, <<":">>) /\ call.arg.bare)
               => (call.err = "none" /\ call.out = JarRootPath)
    /\ (call.op = "pull" /\ WellFormedId(call.arg.source)
          /\ (call.arg.url_given \/ GetDownloadUrl(call.arg.source, call.arg.found) = "none"))
       => call.out.dest = CachePath(call.arg.source)

\* the jar cache is as the last call found it
CacheUntouched == jars = call.preJars /\ jarRoot = call.preRoot

\* C18: pull without --url: when the tag cannot be resolved to a download
\* URL the invocation fails, no directory is made in the jar cache, no
\* download starts and "Complete!" is not printed; when it can, the parent
\* directories of the destination are made before the download starts.
C18_PullFailure ==
    (call.op = "pull" /\ ~call.arg.url_given)
    => IF GetDownloadUrl(call.arg.source, call.arg.found) # "none"
       THEN /\ call.err # "none"
            /\ CacheUntouched
            /\ call.out.steps = <<>>
       ELSE /\ Len(call.out.steps) >= 2
            /\ call.out.steps[1] = "createDirs"
            /\ call.out.steps[2] = "download"

\* C17: run in a child whose real ids are the service account's already,
\* the action of demote changes no id and makes no privilege call; in any
\* other child it sets the effective group and user ids to 0 and then the
\* real group id before the real user id to the service account's; the
\* tool's own identity is as it was.
C17_Demotion ==
    call.op = "spawn"
    => LET before == call.arg.id
           after == call.out.child
       IN
       /\ call.out.parent = before
       /\ IF before.ruid = ServiceId /\ before.rgid = ServiceId
          THEN call.err = "none" /\ call.out.calls = <<>> /\ after = before
          ELSE /\ \E n \in 1..4 :
                    call.out.calls = SubSeq(<<"setegid", "seteuid", "setgid", "setuid">>, 1, n)
               /\ call.err = "none"
                    => (after.rgid = ServiceId /\ after.ruid = ServiceId)

(***************************************************************************)
(* Claims about the start, stop and restart commands (checked under Spec). *)
(***************************************************************************)
\* the units of the other instances are as they were
OthersKept(i) ==
    \A j \in Instances \ {i} : active'[j] = active[j] /\ enabled'[j] = enabled[j]

\* what each command does to the unit of its instance, whatever its state
C16_Commands ==
    \A i \in Instances :
       /\ CliStart(i, TRUE) => (active'[i] /\ enabled'[i] /\ OthersKept(i))
       /\ CliStop(i, TRUE) => (~active'[i] /\ ~enabled'[i] /\ OthersKept(i))
       /\ CliStart(i, FALSE) => (active'[i] /\ enabled'[i] = enabled[i] /\ OthersKept(i))
       /\ CliStop(i, FALSE) => (~active'[i] /\ enabled'[i] = enabled[i] /\ OthersKept(i))
       /\ CliRestart(i) => (active'[i] /\ enabled'[i] = enabled[i] /\ OthersKept(i))

\* a removal of an existing instance went past its guard only with the unit
\* inactive and disabled
C16_RemovalAtRest ==
    (call.op = "remove" /\ call.preFs[call.inst].exists /\ call.err # "Conflict")
    => (~call.wasActive /\ ~call.wasEnabled)

\* C16: start with persistent leaves the unit active and enabled, stop with
\* persistent inactive and disabled; start and stop without persistent
\* change the active flag only; restart leaves the unit active and the
\* enabled flag as it was; so after any sequence of these commands an
\* instance can be removed only when its unit is inactive and disabled.
C16_StartStopSequencing == [][C16_Commands]_vars /\ []C16_RemovalAtRest

C16_Witness ==
    /\ ~active["a"]
    /\ enabled["a"]
    /\ active["b"]
    /\ ~enabled["b"]
    /\ call.op = "remove"
    /\ call.inst = "a"
    /\ call.err = "Conflict"
    /\ ~call.wasActive
    /\ call.wasEnabled

=============================================================================
